---- MODULE Spec2Model ----
(***************************************************************************)
(* Model of src/src/tls.rs: the TlsStream state machine (Handshaking ->    *)
(* Streaming) behind poll_read / poll_write / poll_flush / poll_shutdown,   *)
(* and the TlsAcceptor wrapping the raw connection source.                  *)
(*                                                                         *)
(* The collaborators the code calls are modelled by what they return:      *)
(*  - tokio_rustls::Accept (the handshake future held by                    *)
(*    State::Handshaking): a poll gives Pending, Ok(stream) or Err; the     *)
(*    future is finished after Ok/Err and panics when polled again.         *)
(*  - tokio_rustls::server::TlsStream (the encrypted channel): each of      *)
(*    its poll_read/poll_write/poll_flush/poll_shutdown gives Ok, Pending   *)
(*    or Err, chosen by the environment.                                    *)
(*  - AddrIncoming (the raw connection source): a poll gives Pending,       *)
(*    Some(Ok(sock)), Some(Err) or None.                                    *)
(*                                                                         *)
(* Second part (SpecBuild): TlsConfigBuilder, its setters and build(),      *)
(* reading its sources through LazyFile / Cursor one PEM section per read.  *)
(*  - rustls_pemfile::certs / private_key are modelled by the sections      *)
(*    they return or the error they stop at.                                *)
(*  - whether with_single_cert_with_ocsp rejects a chain that does not      *)
(*    start with the key's certificate depends on the TLS engine.           *)
(***************************************************************************)
EXTENDS Naturals, Sequences, FiniteSets

\* ---- bounds ----
MaxConns == 2     \* raw connections the source produces
MaxCalls == 5     \* calls made on the acceptor and its streams
MaxBytes == 1     \* size of a caller buffer

Addrs == {"a1", "a2"}           \* peer addresses of raw connections
Configs == {"cfgA", "cfgB"}     \* ServerConfig values handed to TlsAcceptor::new

LocalAddr == "l0"               \* the listener's own address

VARIABLES config, incoming, streams, last, ncalls, hsReported, hsPolls, srcErrSeen,
          earlyOk, bld

\* the acceptor and its streams
svars == <<config, incoming, streams, last, ncalls, hsReported, hsPolls, srcErrSeen, earlyOk>>

vars == <<config, incoming, streams, last, ncalls, hsReported, hsPolls, srcErrSeen,
          earlyOk, bld>>

\* ---- results of polls ----
\* Poll<io::Result<..>> as a record: kind, byte count (reads: bytes put in
\* the caller's buffer, writes: bytes accepted), error value.
Ret(kind, n, err) == [kind |-> kind, n |-> n, err |-> err]

RetPending == Ret("Pending", 0, "none")

RetOk(n) == Ret("Ok", n, "none")

RetErr(e) == Ret("Err", 0, e)

RetPanic == Ret("Panic", 0, "none")

NoRet == Ret("none", 0, "none")

\* what the encrypted channel may answer to a read into / write from a
\* buffer of cap bytes, and to flush / shutdown
ChanDataOuts(cap) == {RetOk(k) : k \in 0..cap} \cup {RetPending, RetErr("ChanErr")}

ChanCtlOuts == {RetOk(0), RetPending, RetErr("ChanErr")}

HsOuts == {"Pending", "Ok", "Err"}

\* ---- enum State ----
Handshaking(accept) == [tag |-> "Handshaking", inner |-> accept]

Streaming(stream) == [tag |-> "Streaming", inner |-> stream]

\* tokio_rustls::TlsAcceptor::from(config).accept(stream): the handshake
\* future over the raw connection
Accept(sock, cfg) == [mid |-> "Handshaking", io |-> sock, config |-> cfg]

\* Future::poll of the handshake operation with environment outcome hsOut
AcceptPoll(accept, hsOut) ==
    IF accept.mid = "End"
    THEN [fut |-> accept, kind |-> "Panic"]
    ELSE IF hsOut = "Pending"
         THEN [fut |-> accept, kind |-> "Pending"]
         ELSE [fut |-> [accept EXCEPT !.mid = "End"], kind |-> hsOut]

\* the encrypted channel a successful handshake hands over
ChannelOf(accept) == [mid |-> "Stream", io |-> accept.io, config |-> accept.config]

\* ---- TlsStream ----
\* variant: the connection's local address is captured
TlsStream_new_local(sock, cfg) ==
    [state |-> Handshaking(Accept(sock, cfg)), remote_addr |-> sock.local]

TlsStream_new(sock, cfg) ==
    [state |-> Handshaking(Accept(sock, cfg)), remote_addr |-> sock.addr]

remote_addr(s) == s.remote_addr

\* result of one call: the stream afterwards, the value returned, whether
\* the handshake future was polled, and which channel operation was called
Call(s, ret, hsPolled, chanOp) ==
    [stream |-> s, ret |-> ret, hsPolled |-> hsPolled, chanOp |-> chanOp]

\* variant: a failed read on the channel puts the stream back to Handshaking
poll_read_rehandshake(s, hsOut, chOut) ==
    IF s.state.tag = "Handshaking"
    THEN LET p == AcceptPoll(s.state.inner, hsOut) IN
         CASE p.kind = "Pending" ->
                Call([s EXCEPT !.state = Handshaking(p.fut)], RetPending, TRUE, "none")
           [] p.kind = "Ok" ->
                Call([s EXCEPT !.state = Streaming(ChannelOf(p.fut))], chOut, TRUE, "read")
           [] p.kind = "Err" ->
                Call([s EXCEPT !.state = Handshaking(p.fut)], RetErr("HsErr"), TRUE, "none")
           [] OTHER ->
                Call(s, RetPanic, TRUE, "none")
    ELSE IF chOut.kind = "Err"
         THEN Call([s EXCEPT !.state = Handshaking(Accept(s.state.inner.io, s.state.inner.config))],
                   chOut, FALSE, "read")
         ELSE Call(s, chOut, FALSE, "read")

\* variant: a Pending handshake is answered with Ok and nothing read
poll_read_no_ready(s, hsOut, chOut) ==
    IF s.state.tag = "Handshaking"
    THEN LET p == AcceptPoll(s.state.inner, hsOut) IN
         CASE p.kind = "Pending" ->
                Call([s EXCEPT !.state = Handshaking(p.fut)], RetOk(0), TRUE, "none")
           [] p.kind = "Ok" ->
                Call([s EXCEPT !.state = Streaming(ChannelOf(p.fut))], chOut, TRUE, "read")
           [] p.kind = "Err" ->
                Call([s EXCEPT !.state = Handshaking(p.fut)], RetErr("HsErr"), TRUE, "none")
           [] OTHER ->
                Call(s, RetPanic, TRUE, "none")
    ELSE Call(s, chOut, FALSE, "read")

\* variant: the transition is skipped when the first read fails
poll_read_late_transition(s, hsOut, chOut) ==
    IF s.state.tag = "Handshaking"
    THEN LET p == AcceptPoll(s.state.inner, hsOut) IN
         CASE p.kind = "Pending" ->
                Call([s EXCEPT !.state = Handshaking(p.fut)], RetPending, TRUE, "none")
           [] p.kind = "Ok" ->
                IF chOut.kind = "Err"
                THEN Call([s EXCEPT !.state = Handshaking(p.fut)], chOut, TRUE, "read")
                ELSE Call([s EXCEPT !.state = Streaming(ChannelOf(p.fut))], chOut, TRUE, "read")
           [] p.kind = "Err" ->
                Call([s EXCEPT !.state = Handshaking(p.fut)], RetErr("HsErr"), TRUE, "none")
           [] OTHER ->
                Call(s, RetPanic, TRUE, "none")
    ELSE Call(s, chOut, FALSE, "read")

\* variant: a failed handshake still makes the stream Streaming
poll_read_err_streams(s, hsOut, chOut) ==
    IF s.state.tag = "Handshaking"
    THEN LET p == AcceptPoll(s.state.inner, hsOut) IN
         CASE p.kind = "Pending" ->
                Call([s EXCEPT !.state = Handshaking(p.fut)], RetPending, TRUE, "none")
           [] p.kind = "Ok" ->
                Call([s EXCEPT !.state = Streaming(ChannelOf(p.fut))], chOut, TRUE, "read")
           [] p.kind = "Err" ->
                Call([s EXCEPT !.state = Streaming(ChannelOf(p.fut))], RetErr("HsErr"), TRUE, "none")
           [] OTHER ->
                Call(s, RetPanic, TRUE, "none")
    ELSE Call(s, chOut, FALSE, "read")

poll_read(s, hsOut, chOut) ==
    IF s.state.tag = "Handshaking"
    THEN LET p == AcceptPoll(s.state.inner, hsOut) IN
         CASE p.kind = "Pending" ->
                Call([s EXCEPT !.state = Handshaking(p.fut)], RetPending, TRUE, "none")
           [] p.kind = "Ok" ->
                Call([s EXCEPT !.state = Streaming(ChannelOf(p.fut))], chOut, TRUE, "read")
           [] p.kind = "Err" ->
                Call([s EXCEPT !.state = Handshaking(p.fut)], RetErr("HsErr"), TRUE, "none")
           [] OTHER ->
                Call(s, RetPanic, TRUE, "none")
    ELSE Call(s, chOut, FALSE, "read")

\* variant: a write is passed to the channel while the handshake is Pending
poll_write_early(s, hsOut, chOut) ==
    IF s.state.tag = "Handshaking"
    THEN LET p == AcceptPoll(s.state.inner, hsOut) IN
         CASE p.kind = "Pending" ->
                Call([s EXCEPT !.state = Handshaking(p.fut)], chOut, TRUE, "write")
           [] p.kind = "Ok" ->
                Call([s EXCEPT !.state = Streaming(ChannelOf(p.fut))], chOut, TRUE, "write")
           [] p.kind = "Err" ->
                Call([s EXCEPT !.state = Handshaking(p.fut)], RetErr("HsErr"), TRUE, "none")
           [] OTHER ->
                Call(s, RetPanic, TRUE, "none")
    ELSE Call(s, chOut, FALSE, "write")

\* variant: a failed handshake is answered with Pending
poll_write_swallows_err(s, hsOut, chOut) ==
    IF s.state.tag = "Handshaking"
    THEN LET p == AcceptPoll(s.state.inner, hsOut) IN
         CASE p.kind = "Pending" ->
                Call([s EXCEPT !.state = Handshaking(p.fut)], RetPending, TRUE, "none")
           [] p.kind = "Ok" ->
                Call([s EXCEPT !.state = Streaming(ChannelOf(p.fut))], chOut, TRUE, "write")
           [] p.kind = "Err" ->
                Call([s EXCEPT !.state = Handshaking(p.fut)], RetPending, TRUE, "none")
           [] OTHER ->
                Call(s, RetPanic, TRUE, "none")
    ELSE Call(s, chOut, FALSE, "write")

poll_write(s, hsOut, chOut) ==
    IF s.state.tag = "Handshaking"
    THEN LET p == AcceptPoll(s.state.inner, hsOut) IN
         CASE p.kind = "Pending" ->
                Call([s EXCEPT !.state = Handshaking(p.fut)], RetPending, TRUE, "none")
           [] p.kind = "Ok" ->
                Call([s EXCEPT !.state = Streaming(ChannelOf(p.fut))], chOut, TRUE, "write")
           [] p.kind = "Err" ->
                Call([s EXCEPT !.state = Handshaking(p.fut)], RetErr("HsErr"), TRUE, "none")
           [] OTHER ->
                Call(s, RetPanic, TRUE, "none")
    ELSE Call(s, chOut, FALSE, "write")

\* variant: a flush while Handshaking gives up the handshake
poll_flush_drops_handshake(s, chOut) ==
    IF s.state.tag = "Handshaking"
    THEN Call([s EXCEPT !.state.inner.mid = "End"], RetOk(0), FALSE, "none")
    ELSE Call(s, chOut, FALSE, "flush")

poll_flush(s, chOut) ==
    IF s.state.tag = "Handshaking"
    THEN Call(s, RetOk(0), FALSE, "none")
    ELSE Call(s, chOut, FALSE, "flush")

\* variant: shutdown while Handshaking waits for the handshake
poll_shutdown_waits(s, chOut) ==
    IF s.state.tag = "Handshaking"
    THEN Call(s, RetPending, FALSE, "none")
    ELSE Call(s, chOut, FALSE, "shutdown")

poll_shutdown(s, chOut) ==
    IF s.state.tag = "Handshaking"
    THEN Call(s, RetOk(0), FALSE, "none")
    ELSE Call(s, chOut, FALSE, "shutdown")

\* ---- TlsAcceptor ----
\* AddrStream: a raw connection with its peer address and local address
AddrStream(id, addr) == [id |-> id, addr |-> addr, local |-> LocalAddr]

\* AddrIncoming::poll_accept with environment outcome srcOut: the source
\* appends the connection it produces to its log and stays exhausted once
\* it has reported the end
IncomingPoll(inc, srcOut, addr) ==
    IF inc.eof \/ srcOut = "None"
    THEN [inc |-> [inc EXCEPT !.eof = TRUE], item |-> "None", sock |-> AddrStream(0, addr)]
    ELSE IF srcOut = "Conn"
         THEN LET sock == AddrStream(Len(inc.produced) + 1, addr) IN
              [inc |-> [inc EXCEPT !.produced = Append(@, sock)], item |-> "Conn", sock |-> sock]
         ELSE [inc |-> inc, item |-> srcOut, sock |-> AddrStream(0, addr)]

\* result of poll_accept: the item returned, the streams it yields, and the
\* source after the poll with the item the source gave
Accepted(ret, new, p) == [ret |-> ret, new |-> new, inc |-> p.inc, item |-> p.item]

\* Poll<Option<Result<TlsStream, io::Error>>>
RetSomeOk == Ret("SomeOk", 0, "none")

RetSomeErr == Ret("SomeErr", 0, "SrcErr")

RetNone == Ret("None", 0, "none")

\* variant: the raw connection is taken from the source and dropped
poll_accept_drops(cfg, inc, srcOut, addr) ==
    LET p == IncomingPoll(inc, srcOut, addr) IN
    CASE p.item = "Pending" -> Accepted(RetPending, <<>>, p)
      [] p.item = "Conn" -> Accepted(RetPending, <<>>, p)
      [] p.item = "Err" -> Accepted(RetSomeErr, <<>>, p)
      [] OTHER -> Accepted(RetNone, <<>>, p)

\* variant: an error of the source ends the connection stream
poll_accept_err_ends(cfg, inc, srcOut, addr) ==
    LET p == IncomingPoll(inc, srcOut, addr) IN
    CASE p.item = "Pending" -> Accepted(RetPending, <<>>, p)
      [] p.item = "Conn" -> Accepted(RetSomeOk, <<TlsStream_new(p.sock, cfg)>>, p)
      [] p.item = "Err" -> Accepted(RetNone, <<>>, p)
      [] OTHER -> Accepted(RetNone, <<>>, p)

poll_accept(cfg, inc, srcOut, addr) ==
    LET p == IncomingPoll(inc, srcOut, addr) IN
    CASE p.item = "Pending" -> Accepted(RetPending, <<>>, p)
      [] p.item = "Conn" -> Accepted(RetSomeOk, <<TlsStream_new(p.sock, cfg)>>, p)
      [] p.item = "Err" -> Accepted(RetSomeErr, <<>>, p)
      [] OTHER -> Accepted(RetNone, <<>>, p)

\* ---- the record of the last call ----
Last(op, sid, ret, hsPolled, hsKind, chanOp, chanOut, srcItem) ==
    [op |-> op, sid |-> sid, ret |-> ret, hsPolled |-> hsPolled, hsKind |-> hsKind,
     chanOp |-> chanOp, chanOut |-> chanOut, srcItem |-> srcItem]

\* what the handshake future answered in a call that polled it
HsKind(s, c, hsOut) ==
    IF c.hsPolled /\ s.state.tag = "Handshaking"
    THEN AcceptPoll(s.state.inner, hsOut).kind
    ELSE "none"

Reported(old, kind) == IF kind \in {"Ok", "Err"} THEN kind ELSE old

Init ==
    /\ config \in Configs
    /\ incoming = [produced |-> <<>>, eof |-> FALSE]
    /\ streams = <<>>
    /\ last = Last("new", 0, NoRet, FALSE, "none", "none", NoRet, "none")
    /\ ncalls = 0
    /\ hsReported = <<>>
    /\ hsPolls = <<>>
    /\ srcErrSeen = FALSE
    /\ earlyOk = <<>>
    /\ bld = "unused"

PollAccept ==
    /\ ncalls < MaxCalls
    /\ \E srcOut \in {"Pending", "Conn", "Err", "None"}, addr \in Addrs :
         /\ srcOut = "Conn" => Len(incoming.produced) < MaxConns
         /\ LET a == poll_accept(config, incoming, srcOut, addr)
            IN /\ incoming' = a.inc
               /\ streams' = streams \o a.new
               /\ hsReported' = hsReported \o [i \in 1..Len(a.new) |-> "none"]
               /\ hsPolls' = hsPolls \o [i \in 1..Len(a.new) |-> 0]
               /\ earlyOk' = earlyOk \o [i \in 1..Len(a.new) |-> FALSE]
               /\ srcErrSeen' = (srcErrSeen \/ a.item = "Err")
               /\ last' = Last("accept", 0, a.ret, FALSE, "none", "none", NoRet, a.item)
    /\ ncalls' = ncalls + 1
    /\ UNCHANGED <<config, bld>>

\* a flush or shutdown answered Ok without a channel
EarlyOk(old, op, c) ==
    old \/ (op \in {"flush", "shutdown"} /\ c.ret.kind = "Ok" /\ c.chanOp = "none")

\* variant: a failed handshake on one stream ends the handshakes of the others
StreamCall_err_poisons(op, sid, c, hsOut, chOut) ==
    LET s == streams[sid]
        k == HsKind(s, c, hsOut)
    IN /\ streams' = [j \in 1..Len(streams) |->
                        IF j = sid THEN c.stream
                        ELSE IF k = "Err" /\ streams[j].state.tag = "Handshaking"
                             THEN [streams[j] EXCEPT !.state.inner.mid = "End"]
                             ELSE streams[j]]
       /\ hsReported' = [hsReported EXCEPT ![sid] = Reported(@, k)]
       /\ hsPolls' = [hsPolls EXCEPT ![sid] = IF c.hsPolled THEN @ + 1 ELSE @]
       /\ earlyOk' = [earlyOk EXCEPT ![sid] = EarlyOk(@, op, c)]
       /\ last' = Last(op, sid, c.ret, c.hsPolled, k, c.chanOp,
                       IF c.chanOp = "none" THEN NoRet ELSE chOut, "none")
       /\ ncalls' = ncalls + 1
       /\ UNCHANGED <<config, incoming, srcErrSeen, bld>>

\* one call on stream sid whose outcome is c
StreamCall(op, sid, c, hsOut, chOut) ==
    LET s == streams[sid]
        k == HsKind(s, c, hsOut)
    IN /\ streams' = [streams EXCEPT ![sid] = c.stream]
       /\ hsReported' = [hsReported EXCEPT ![sid] = Reported(@, k)]
       /\ hsPolls' = [hsPolls EXCEPT ![sid] = IF c.hsPolled THEN @ + 1 ELSE @]
       /\ earlyOk' = [earlyOk EXCEPT ![sid] = EarlyOk(@, op, c)]
       /\ last' = Last(op, sid, c.ret, c.hsPolled, k, c.chanOp,
                       IF c.chanOp = "none" THEN NoRet ELSE chOut, "none")
       /\ ncalls' = ncalls + 1
       /\ UNCHANGED <<config, incoming, srcErrSeen, bld>>

PollRead ==
    /\ ncalls < MaxCalls
    /\ \E sid \in 1..Len(streams), hsOut \in HsOuts, cap \in 1..MaxBytes :
         \E chOut \in ChanDataOuts(cap) :
            StreamCall("read", sid, poll_read(streams[sid], hsOut, chOut), hsOut, chOut)

PollWrite ==
    /\ ncalls < MaxCalls
    /\ \E sid \in 1..Len(streams), hsOut \in HsOuts, len \in 1..MaxBytes :
         \E chOut \in ChanDataOuts(len) :
            StreamCall("write", sid, poll_write(streams[sid], hsOut, chOut), hsOut, chOut)

PollFlush ==
    /\ ncalls < MaxCalls
    /\ \E sid \in 1..Len(streams), chOut \in ChanCtlOuts :
         StreamCall("flush", sid, poll_flush(streams[sid], chOut), "Pending", chOut)

PollShutdown ==
    /\ ncalls < MaxCalls
    /\ \E sid \in 1..Len(streams), chOut \in ChanCtlOuts :
         StreamCall("shutdown", sid, poll_shutdown(streams[sid], chOut), "Pending", chOut)

Next == PollAccept \/ PollRead \/ PollWrite \/ PollFlush \/ PollShutdown

Spec == Init /\ [][Next]_vars

\* ---- credential sources ----
\* A PEM byte stream is a sequence of sections: a certificate or a private
\* key of an RSA or EC pair, "junk" (a CERTIFICATE section whose DER is not
\* an X.509 certificate) and "bad" (a section that does not decode).
PemCerts == {"certRSA", "certEC"}

PemKeys == {"keyRSA", "keyEC"}

PairOf(item) == IF item \in {"certRSA", "keyRSA"} THEN "RSA" ELSE "EC"

\* the byte buffers handed to the builder
Contents ==
    { <<>>, <<"certRSA">>, <<"keyRSA">>, <<"certEC">>, <<"keyEC">>,
      <<"certEC", "keyEC">>, <<"bad">>, <<"junk">>, <<"junk", "certRSA">> }

NoFile == <<"no such file">>

\* the files on disk: path |-> content, NoFile for a path that cannot be opened
FS ==
    [p \in {"cert.pem", "key.rsa", "cert.ecc.pem", "key.ecc", "missing.pem"} |->
        CASE p = "cert.pem" -> <<"certRSA">>
          [] p = "key.rsa" -> <<"keyRSA">>
          [] p = "cert.ecc.pem" -> <<"certEC">>
          [] p = "key.ecc" -> <<"keyEC">>
          [] OTHER -> NoFile]

Paths == DOMAIN FS

\* io::empty(), Cursor::new(bytes) and LazyFile { path, file: None }
IoEmpty == [kind |-> "empty", data |-> <<>>, path |-> "none", file |-> "None", pos |-> 0]

Cursor(bytes) == [kind |-> "cursor", data |-> bytes, path |-> "none", file |-> "None", pos |-> 0]

LazyFile(path) == [kind |-> "lazy", data |-> <<>>, path |-> path, file |-> "None", pos |-> 0]

\* io::Result<usize> of one read: the sections read (none at the end of the
\* data), or an error with its kind and the path it names
IoOk(chunk) == [ok |-> TRUE, chunk |-> chunk, kind |-> "none", path |-> "none"]

IoErr(kind, path) == [ok |-> FALSE, chunk |-> <<>>, kind |-> kind, path |-> path]

\* one read of a source: the source afterwards, the result, the open attempts
ReadOut(src, res, opens) == [src |-> src, res |-> res, opens |-> opens]

\* read of data from position src.pos, one section at a time
ReadAt(src, data) ==
    IF src.pos < Len(data)
    THEN ReadOut([src EXCEPT !.pos = @ + 1], IoOk(<<data[src.pos + 1]>>), <<>>)
    ELSE ReadOut(src, IoOk(<<>>), <<>>)

\* File::open and File::read
FileOpen(path) == IF FS[path] = NoFile THEN IoErr("NotFound", "none") ELSE IoOk(<<>>)

\* a read that opened the file at path first
Opened(r, path) == ReadOut(r.src, r.res, <<path>>)

\* variant: the file is opened on every read
lazy_read_reopens(lf) ==
    IF ~FileOpen(lf.path).ok
    THEN ReadOut(lf, FileOpen(lf.path), <<lf.path>>)
    ELSE Opened(ReadAt([lf EXCEPT !.file = "Open"], FS[lf.path]), lf.path)

lazy_read(lf) ==
    IF lf.file = "None"
    THEN IF ~FileOpen(lf.path).ok
         THEN ReadOut(lf, FileOpen(lf.path), <<lf.path>>)
         ELSE Opened(ReadAt([lf EXCEPT !.file = "Open"], FS[lf.path]), lf.path)
    ELSE ReadAt(lf, FS[lf.path])

\* the map_err of read: an error keeps its kind and names the path
WrapErr(r, path) ==
    IF r.res.ok THEN r ELSE ReadOut(r.src, IoErr(r.res.kind, path), r.opens)

\* impl Read for LazyFile
LazyFile_read(lf) == WrapErr(lazy_read(lf), lf.path)

\* Read::read of a Box<dyn Read>
Read(src) ==
    IF src.kind = "lazy" THEN LazyFile_read(src) ELSE ReadAt(src, src.data)

\* the record of one read of the source named tag
ReadEvent(tag, src, r) ==
    [tag |-> tag, path |-> src.path, fileBefore |-> src.file, fileAfter |-> r.src.file,
     opens |-> r.opens, ok |-> r.res.ok, kind |-> r.res.kind, errPath |-> r.res.path]

\* result of a parser: Ok(val) or Err(err), with the reads it made
Parsed(ok, val, err, log) == [ok |-> ok, val |-> val, err |-> err, log |-> log]

\* rustls_pemfile::certs(..).collect::<Result<Vec<_>, _>>(): every
\* CERTIFICATE section up to the end of the data; other sections are
\* skipped; a read error or a section that does not decode is an error.
\* pem_certs_on continues after the read r of src.
RECURSIVE pem_certs(_, _, _, _)
RECURSIVE pem_certs_on(_, _, _, _, _)
pem_certs_on(r, src, tag, acc, log) ==
    IF ~r.res.ok THEN Parsed(FALSE, <<>>, r.res, Append(log, ReadEvent(tag, src, r)))
    ELSE IF r.res.chunk = <<>> THEN Parsed(TRUE, acc, r.res, Append(log, ReadEvent(tag, src, r)))
    ELSE IF r.res.chunk[1] = "bad"
         THEN Parsed(FALSE, <<>>, IoErr("InvalidData", "none"), Append(log, ReadEvent(tag, src, r)))
         ELSE pem_certs(r.src, tag,
                        IF r.res.chunk[1] \in PemCerts \cup {"junk"}
                        THEN Append(acc, r.res.chunk[1]) ELSE acc,
                        Append(log, ReadEvent(tag, src, r)))

pem_certs(src, tag, acc, log) == pem_certs_on(Read(src), src, tag, acc, log)

\* rustls_pemfile::private_key: the first private key section, None at the
\* end of the data; a read error or a section that does not decode is an
\* error. pem_private_key_on continues after the read r of src.
RECURSIVE pem_private_key(_, _, _)
RECURSIVE pem_private_key_on(_, _, _, _)
pem_private_key_on(r, src, tag, log) ==
    IF ~r.res.ok THEN Parsed(FALSE, "None", r.res, Append(log, ReadEvent(tag, src, r)))
    ELSE IF r.res.chunk = <<>> THEN Parsed(TRUE, "None", r.res, Append(log, ReadEvent(tag, src, r)))
    ELSE IF r.res.chunk[1] = "bad"
         THEN Parsed(FALSE, "None", IoErr("InvalidData", "none"), Append(log, ReadEvent(tag, src, r)))
         ELSE IF r.res.chunk[1] \in PemKeys
              THEN Parsed(TRUE, r.res.chunk[1], r.res, Append(log, ReadEvent(tag, src, r)))
              ELSE pem_private_key(r.src, tag, Append(log, ReadEvent(tag, src, r)))

pem_private_key(src, tag, log) == pem_private_key_on(Read(src), src, tag, log)

\* ---- TlsConfigBuilder ----
\* enum TlsConfigError
TlsErr(t, kind, path) == [t |-> t, kind |-> kind, path |-> path]

CertParseError == TlsErr("CertParseError", "none", "none")

MissingPrivateKey == TlsErr("MissingPrivateKey", "none", "none")

InvalidKey == TlsErr("InvalidKey", "none", "none")

Io(e) == TlsErr("Io", e.kind, e.path)

NoErr == TlsErr("none", "none", "none")

\* enum TlsClientAuth
AuthOff == [mode |-> "Off", src |-> IoEmpty]

AuthOptional(src) == [mode |-> "Optional", src |-> src]

AuthRequired(src) == [mode |-> "Required", src |-> src]

TlsConfigBuilder_new ==
    [key |-> IoEmpty, cert |-> IoEmpty, client_auth |-> AuthOff, ocsp_resp |-> <<>>]

key_path(b, path) == [b EXCEPT !.key = LazyFile(path)]

key(b, bytes) == [b EXCEPT !.key = Cursor(bytes)]

cert_path(b, path) == [b EXCEPT !.cert = LazyFile(path)]

cert(b, bytes) == [b EXCEPT !.cert = Cursor(bytes)]

client_auth_optional_path(b, path) == [b EXCEPT !.client_auth = AuthOptional(LazyFile(path))]

client_auth_optional(b, bytes) == [b EXCEPT !.client_auth = AuthOptional(Cursor(bytes))]

client_auth_required_path(b, path) == [b EXCEPT !.client_auth = AuthRequired(LazyFile(path))]

\* variant: the required setter stores the Optional mode
client_auth_required_as_optional(b, bytes) ==
    [b EXCEPT !.client_auth = AuthOptional(Cursor(bytes))]

client_auth_required(b, bytes) == [b EXCEPT !.client_auth = AuthRequired(Cursor(bytes))]

ocsp_resp(b, bytes) == [b EXCEPT !.ocsp_resp = bytes]

\* RootCertStore::add_parsable_certificates: the certificates it adds
AddParsable(certs) == SelectSeq(certs, LAMBDA c : c \in PemCerts)

\* the store made of the certificates r read from the trust-anchor source
AnchorStoreStrict(r) ==
    IF ~r.ok THEN Parsed(FALSE, <<>>, Io(r.err), r.log)
    ELSE IF Len(AddParsable(r.val)) = 0 \/ Len(AddParsable(r.val)) < Len(r.val)
         THEN Parsed(FALSE, <<>>, CertParseError, r.log)
         ELSE Parsed(TRUE, AddParsable(r.val), NoErr, r.log)

AnchorStore(r) ==
    IF ~r.ok THEN Parsed(FALSE, <<>>, Io(r.err), r.log)
    ELSE IF Len(AddParsable(r.val)) = 0
         THEN Parsed(FALSE, <<>>, CertParseError, r.log)
         ELSE Parsed(TRUE, AddParsable(r.val), NoErr, r.log)

\* variant: a certificate that cannot be added fails the whole store
read_trust_anchor_strict(trust_anchor) ==
    AnchorStoreStrict(pem_certs(trust_anchor, "anchor", <<>>, <<>>))

read_trust_anchor(trust_anchor) ==
    AnchorStore(pem_certs(trust_anchor, "anchor", <<>>, <<>>))

\* WebPkiClientVerifier::builder(roots)[.allow_unauthenticated()].build():
\* an error when there is no root
Verifier(mode, roots) ==
    IF Len(roots) = 0
    THEN Parsed(FALSE, "none", CertParseError, <<>>)
    ELSE Parsed(TRUE, [anonymous |-> (mode = "Optional"), roots |-> roots], NoErr, <<>>)

NoVerifier == [anonymous |-> TRUE, roots |-> <<>>]

\* with_single_cert_with_ocsp: a chain whose first certificate belongs to the
\* key is accepted; whether the engine rejects any other chain depends on
\* the engine (eng)
SingleCertOk(chain, k, eng) ==
    \/ /\ Len(chain) > 0
       /\ chain[1] \in PemCerts
       /\ PairOf(chain[1]) = PairOf(k)
    \/ eng = "lenient"

Engines == {"strict", "lenient"}

\* struct ServerConfig
ServerConfig(auth, verifier, chain, k, ocsp, alpn) ==
    [client_auth |-> auth, verifier |-> verifier, cert |-> chain, key |-> k,
     ocsp |-> ocsp, alpn_protocols |-> alpn]

NoConfig == ServerConfig("none", NoVerifier, <<>>, "None", <<>>, <<>>)

\* variant: HTTP/1.1 is offered first
Alpn_reversed == <<"http/1.1", "h2">>

Alpn == <<"h2", "http/1.1">>

\* Result<ServerConfig, TlsConfigError> of build, with the step that ended it
\* and the reads made
Built(ok, cfg, err, stage, log) ==
    [ok |-> ok, config |-> cfg, err |-> err, stage |-> stage, log |-> log]

NotBuilt == Built(FALSE, NoConfig, NoErr, "none", <<>>)

\* with_single_cert_with_ocsp and alpn_protocols, given the verifier v
Finish(b, chain, k, eng, log, v) ==
    IF ~v.ok THEN Built(FALSE, NoConfig, v.err, "anchor", log)
    ELSE IF ~SingleCertOk(chain, k, eng)
         THEN Built(FALSE, NoConfig, InvalidKey, "assemble", log)
         ELSE Built(TRUE,
                    ServerConfig(b.client_auth.mode, v.val, chain, k, b.ocsp_resp, Alpn),
                    NoErr, "done", log)

\* the verifier of the client-auth mode, given the trust-anchor store a
WithAnchors(b, chain, k, eng, log, a) ==
    IF ~a.ok THEN Built(FALSE, NoConfig, a.err, "anchor", log \o a.log)
    ELSE Finish(b, chain, k, eng, log \o a.log,
                IF b.client_auth.mode = "Off"
                THEN Parsed(TRUE, NoVerifier, NoErr, <<>>)
                ELSE Verifier(b.client_auth.mode, a.val))

\* the verifier of the client-auth mode and the assembly of the configuration
Assemble(b, chain, k, eng, log) ==
    WithAnchors(b, chain, k, eng, log,
                IF b.client_auth.mode = "Off"
                THEN Parsed(TRUE, <<>>, NoErr, <<>>)
                ELSE read_trust_anchor(b.client_auth.src))

\* the check of the private key k, after the certificates c
AfterKey(b, eng, c, k) ==
    IF ~k.ok THEN Built(FALSE, NoConfig, Io(k.err), "key", c.log \o k.log)
    ELSE IF k.val = "None"
         THEN Built(FALSE, NoConfig, MissingPrivateKey, "key", c.log \o k.log)
         ELSE Assemble(b, c.val, k.val, eng, c.log \o k.log)

\* the check of the certificates c, then the private key
AfterCert(b, eng, c) ==
    IF ~c.ok THEN Built(FALSE, NoConfig, CertParseError, "cert", c.log)
    ELSE AfterKey(b, eng, c, pem_private_key(b.key, "key", <<>>))

\* variant: the private key is read and checked before the certificate
KeyFirstAfterCert(b, eng, k, c) ==
    IF ~c.ok THEN Built(FALSE, NoConfig, CertParseError, "cert", k.log \o c.log)
    ELSE Assemble(b, c.val, k.val, eng, k.log \o c.log)

KeyFirstAfterKey(b, eng, k) ==
    IF ~k.ok THEN Built(FALSE, NoConfig, Io(k.err), "key", k.log)
    ELSE IF k.val = "None"
         THEN Built(FALSE, NoConfig, MissingPrivateKey, "key", k.log)
         ELSE KeyFirstAfterCert(b, eng, k, pem_certs(b.cert, "cert", <<>>, <<>>))

build_key_first(b, eng) == KeyFirstAfterKey(b, eng, pem_private_key(b.key, "key", <<>>))

\* variant: certificate and key are both read before either is checked
ReadsAllCheck(b, eng, c, k) ==
    IF ~c.ok THEN Built(FALSE, NoConfig, CertParseError, "cert", c.log \o k.log)
    ELSE AfterKey(b, eng, c, k)

build_reads_all(b, eng) ==
    ReadsAllCheck(b, eng, pem_certs(b.cert, "cert", <<>>, <<>>),
                  pem_private_key(b.key, "key", <<>>))

build(b, eng) == AfterCert(b, eng, pem_certs(b.cert, "cert", <<>>, <<>>))

\* the paths opened by the reads of log
RECURSIVE OpensOf(_)
OpensOf(log) == IF log = <<>> THEN <<>> ELSE log[1].opens \o OpensOf(Tail(log))

\* ---- the builder as a state machine ----
Builder(pc, b, authCall, opens, out) ==
    [pc |-> pc, b |-> b, authCall |-> authCall, opens |-> opens, out |-> out]

BInit ==
    /\ config = "cfgA"
    /\ incoming = [produced |-> <<>>, eof |-> FALSE]
    /\ streams = <<>>
    /\ last = Last("new", 0, NoRet, FALSE, "none", "none", NoRet, "none")
    /\ ncalls = 0
    /\ hsReported = <<>>
    /\ hsPolls = <<>>
    /\ srcErrSeen = FALSE
    /\ earlyOk = <<>>
    /\ bld = Builder("building", TlsConfigBuilder_new, "none", <<>>, NotBuilt)

\* the builder after build returned out
Consumed(bd, out) ==
    [bd EXCEPT !.pc = "built", !.out = out, !.opens = @ \o OpensOf(out.log)]

\* a setter that gives builder b2
Set(b2, authCall) ==
    /\ bld.pc = "building"
    /\ bld' = [bld EXCEPT !.b = b2, !.authCall = authCall]
    /\ UNCHANGED svars

SetKeyPath == \E p \in Paths : Set(key_path(bld.b, p), bld.authCall)

SetKey == \E c \in Contents : Set(key(bld.b, c), bld.authCall)

SetCertPath == \E p \in Paths : Set(cert_path(bld.b, p), bld.authCall)

SetCert == \E c \in Contents : Set(cert(bld.b, c), bld.authCall)

SetClientAuthOptionalPath == \E p \in Paths : Set(client_auth_optional_path(bld.b, p), "optional")

SetClientAuthOptional == \E c \in Contents : Set(client_auth_optional(bld.b, c), "optional")

SetClientAuthRequiredPath == \E p \in Paths : Set(client_auth_required_path(bld.b, p), "required")

SetClientAuthRequired == \E c \in Contents : Set(client_auth_required(bld.b, c), "required")

SetOcspResp == \E o \in {<<>>, <<"ocsp">>} : Set(ocsp_resp(bld.b, o), bld.authCall)

Build ==
    /\ bld.pc = "building"
    /\ \E eng \in Engines : bld' = Consumed(bld, build(bld.b, eng))
    /\ UNCHANGED svars

BNext ==
    \/ SetKeyPath \/ SetKey \/ SetCertPath \/ SetCert
    \/ SetClientAuthOptionalPath \/ SetClientAuthOptional
    \/ SetClientAuthRequiredPath \/ SetClientAuthRequired
    \/ SetOcspResp \/ Build

SpecBuild == BInit /\ [][BNext]_vars

\* ---- properties ----
\* a step that is a call of op on stream i
StepOn(op, i) == ncalls' = ncalls + 1 /\ last'.op = op /\ last'.sid = i

IsStreaming(s) == s.state.tag = "Streaming"

IsHandshaking(s) == s.state.tag = "Handshaking"

\* C1: once a stream is Streaming it is Streaming after every later call, and
\* every later poll_read / poll_write on it calls the same operation of the
\* encrypted channel and returns its answer, without polling the handshake
\* future again.
C1_StreamingIsFinal ==
    [][\A i \in 1..Len(streams) :
          IsStreaming(streams[i]) =>
             /\ IsStreaming(streams'[i])
             /\ hsPolls'[i] = hsPolls[i]
             /\ \A op \in {"read", "write"} :
                   StepOn(op, i) =>
                      /\ ~last'.hsPolled
                      /\ last'.chanOp = op
                      /\ last'.ret = last'.chanOut]_vars

\* a write delegated to the channel of a stream that became Streaming in an
\* earlier poll_read
C1_Witness ==
    /\ last.op = "write" /\ last.chanOp = "write" /\ ~last.hsPolled
    /\ last.ret.kind = "Ok" /\ last.ret.n > 0
    /\ IsStreaming(streams[last.sid])
    /\ hsPolls[last.sid] > 0

\* C2: a poll_read or poll_write returns success (bytes delivered to or
\* accepted from the caller), or touches the channel at all, only on a stream
\* whose handshake future has reported success in that call or earlier.
C2_HandshakeBeforeData ==
    (last.op \in {"read", "write"} /\ (last.ret.kind = "Ok" \/ last.chanOp # "none"))
        => hsReported[last.sid] = "Ok"

\* bytes delivered by the poll_read that completed the handshake
C2_Witness ==
    /\ last.op = "read" /\ last.hsKind = "Ok"
    /\ last.ret.kind = "Ok" /\ last.ret.n > 0

\* C3: a poll_read on a Handshaking stream whose handshake future answers
\* Pending returns Pending, fills no byte of the caller's buffer, calls no
\* channel operation and leaves the stream exactly as it was, however often
\* it is repeated.
C3_ReadPendingNoEffect ==
    [][\A i \in 1..Len(streams) :
          (StepOn("read", i) /\ IsHandshaking(streams[i]) /\ last'.hsKind = "Pending") =>
             /\ last'.ret = RetPending
             /\ last'.chanOp = "none"
             /\ streams'[i] = streams[i]
             /\ hsReported'[i] = hsReported[i]]_vars

\* a Pending poll_read on a stream whose handshake future has been polled
\* three times or more and has always answered Pending
C3_Witness ==
    /\ last.op = "read" /\ last.hsKind = "Pending" /\ last.ret = RetPending
    /\ hsPolls[last.sid] >= 3
    /\ IsHandshaking(streams[last.sid])
    /\ hsReported[last.sid] = "none"

\* C4: a poll_read that sees the handshake future succeed leaves the stream
\* Streaming and returns exactly what the one read on the new channel
\* answered: Ok, Pending or Err.
C4_ReadAfterHandshake ==
    [][\A i \in 1..Len(streams) :
          (StepOn("read", i) /\ IsHandshaking(streams[i]) /\ last'.hsKind = "Ok") =>
             /\ IsStreaming(streams'[i])
             /\ streams'[i].state.inner.io = streams[i].state.inner.io
             /\ last'.chanOp = "read"
             /\ last'.ret = last'.chanOut
             /\ last'.ret.kind \in {"Ok", "Pending", "Err"}]_vars

\* the handshake succeeded and the read on the new channel failed: the
\* stream is Streaming all the same
C4_Witness ==
    /\ last.op = "read" /\ last.hsKind = "Ok"
    /\ last.ret = RetErr("ChanErr")
    /\ IsStreaming(streams[last.sid])

\* C5: a poll_read that sees the handshake future fail returns that error and
\* leaves the stream Handshaking; every later poll_read on the stream delivers
\* nothing, calls no channel operation and leaves it Handshaking.
C5_FailedHandshakeUnusable ==
    [][\A i \in 1..Len(streams) :
          StepOn("read", i) =>
             /\ (IsHandshaking(streams[i]) /\ last'.hsKind = "Err") =>
                   /\ last'.ret = RetErr("HsErr")
                   /\ IsHandshaking(streams'[i])
                   /\ last'.chanOp = "none"
             /\ hsReported[i] = "Err" =>
                   /\ last'.ret.kind # "Ok" /\ last'.ret.n = 0
                   /\ last'.chanOp = "none"
                   /\ IsHandshaking(streams'[i])]_vars

\* a poll_read on a stream whose handshake failed in an earlier call
C5_Witness ==
    /\ last.op = "read" /\ last.hsKind = "Panic"
    /\ hsReported[last.sid] = "Err"
    /\ IsHandshaking(streams[last.sid])

\* C6: poll_write mirrors poll_read. On a Handshaking stream it polls the
\* handshake future: Pending gives Pending, no channel call and an unchanged
\* stream; success makes the stream Streaming and returns what one write on
\* the new channel answered; failure returns the error and stays
\* Handshaking. On a Streaming stream it calls the channel's write directly.
C6_WriteSymmetric ==
    [][\A i \in 1..Len(streams) :
          StepOn("write", i) =>
             /\ IsHandshaking(streams[i]) => last'.hsPolled
             /\ (IsHandshaking(streams[i]) /\ last'.hsKind = "Pending") =>
                   /\ last'.ret = RetPending
                   /\ last'.chanOp = "none"
                   /\ streams'[i] = streams[i]
             /\ (IsHandshaking(streams[i]) /\ last'.hsKind = "Ok") =>
                   /\ IsStreaming(streams'[i])
                   /\ last'.chanOp = "write"
                   /\ last'.ret = last'.chanOut
             /\ (IsHandshaking(streams[i]) /\ last'.hsKind = "Err") =>
                   /\ last'.ret = RetErr("HsErr")
                   /\ last'.chanOp = "none"
                   /\ IsHandshaking(streams'[i])
             /\ IsStreaming(streams[i]) =>
                   /\ ~last'.hsPolled
                   /\ last'.chanOp = "write"
                   /\ last'.ret = last'.chanOut
                   /\ streams'[i] = streams[i]]_vars

\* the poll_write that completed the handshake had its bytes accepted
C6_Witness ==
    /\ last.op = "write" /\ last.hsKind = "Ok"
    /\ last.ret.kind = "Ok" /\ last.ret.n > 0
    /\ IsStreaming(streams[last.sid])

\* C7: on a Handshaking stream poll_flush and poll_shutdown return Ok at
\* once, do not poll the handshake future and leave the stream unchanged, so
\* a stream whose handshake future was never polled is Handshaking; on a
\* Streaming stream each calls the channel's flush / shutdown and returns
\* its answer.
C7_FlushShutdown ==
    [][\A i \in 1..Len(streams) :
          /\ \A op \in {"flush", "shutdown"} :
                StepOn(op, i) =>
                   /\ IsHandshaking(streams[i]) =>
                         /\ last'.ret = RetOk(0)
                         /\ ~last'.hsPolled /\ hsPolls'[i] = hsPolls[i]
                         /\ last'.chanOp = "none"
                         /\ streams'[i] = streams[i]
                   /\ IsStreaming(streams[i]) =>
                         /\ last'.chanOp = op
                         /\ last'.ret = last'.chanOut
                         /\ streams'[i] = streams[i]
          /\ hsPolls'[i] = 0 => IsHandshaking(streams'[i])]_vars

\* a poll_shutdown answered Ok on a stream that is still Handshaking after
\* three calls or more, none of which polled the handshake future
C7_Witness ==
    /\ last.op = "shutdown" /\ last.ret = RetOk(0) /\ last.chanOp = "none"
    /\ IsHandshaking(streams[last.sid])
    /\ hsPolls[last.sid] = 0
    /\ Len(streams) = 1 /\ ncalls >= 4

\* a fresh stream over raw connection sock bound to configuration cfg
IsFresh(s, sock, cfg) ==
    /\ s.state.tag = "Handshaking"
    /\ s.state.inner.mid = "Handshaking"
    /\ s.state.inner.io = sock
    /\ s.state.inner.config = cfg

\* C8: a poll_accept whose source produces a raw connection returns, in that
\* call, one new stream over that connection, Handshaking and bound to the
\* acceptor's configuration, after the streams yielded before; a Pending
\* source gives Pending and no stream; the streams yielded are, in order,
\* over the connections the source produced, one each.
C8_OneStreamPerConnection ==
    [][/\ \A i \in 1..Len(streams) : i <= Len(streams') /\ streams'[i].state.inner.io = streams[i].state.inner.io
       /\ Len(streams') = Len(incoming'.produced)
       /\ \A i \in 1..Len(streams') :
             /\ streams'[i].state.inner.io = incoming'.produced[i]
             /\ streams'[i].state.inner.config = config
       /\ StepOn("accept", 0) =>
             /\ last'.srcItem = "Conn" =>
                   /\ last'.ret = RetSomeOk
                   /\ Len(streams') = Len(streams) + 1
                   /\ IsFresh(streams'[Len(streams')], incoming'.produced[Len(incoming'.produced)], config)
             /\ last'.srcItem = "Pending" =>
                   /\ last'.ret = RetPending
                   /\ streams' = streams
             /\ last'.ret = RetSomeOk => last'.srcItem = "Conn"]_vars

\* the second connection of the source was just turned into the second stream
C8_Witness ==
    /\ last.op = "accept" /\ last.ret = RetSomeOk
    /\ Len(streams) = 2 /\ Len(incoming.produced) = 2
    /\ streams[1].state.inner.io.addr # streams[2].state.inner.io.addr

\* C9: a poll_accept whose source reports an error returns that error as an
\* item and yields no stream; after an error a poll_accept still turns a
\* connection the source produces into a stream; poll_accept returns the end
\* of the stream exactly when the source reports its end.
C9_AcceptErrorContinues ==
    [][StepOn("accept", 0) =>
          /\ last'.srcItem # "none"
          /\ last'.srcItem = "Err" =>
                /\ last'.ret = RetSomeErr
                /\ streams' = streams
                /\ incoming' = incoming
          /\ (last'.ret = RetNone) <=> (last'.srcItem = "None")
          /\ (srcErrSeen /\ last'.srcItem = "Conn") =>
                /\ last'.ret = RetSomeOk
                /\ Len(streams') = Len(streams) + 1]_vars

\* a stream yielded by a poll_accept made after the source reported an error
C9_Witness ==
    /\ srcErrSeen
    /\ last.op = "accept" /\ last.ret = RetSomeOk
    /\ Len(streams) >= 1

\* C10: the address a stream reports is the address of the raw connection it
\* was built from, and no call changes it: fresh, Handshaking, after a failed
\* handshake and Streaming.
C10_RemoteAddrFixed ==
    [][\A i \in 1..Len(streams') :
          /\ remote_addr(streams'[i]) = incoming'.produced[i].addr
          /\ i <= Len(streams) => remote_addr(streams'[i]) = remote_addr(streams[i])]_vars

\* two streams with different peers, one Streaming and one whose handshake
\* failed, each reporting its own connection's address
C10_Witness ==
    /\ Len(streams) = 2
    /\ incoming.produced[1].addr # incoming.produced[2].addr
    /\ \E i, j \in 1..2 :
          /\ IsStreaming(streams[i]) /\ remote_addr(streams[i]) = incoming.produced[i].addr
          /\ hsReported[j] = "Err" /\ remote_addr(streams[j]) = incoming.produced[j].addr

\* C11: a call on one stream, a failed handshake included, leaves the
\* acceptor's configuration, the raw connection source and every other stream
\* as they were, and every stream stays bound to that one configuration.
C11_StreamsIndependent ==
    [][\A i \in 1..Len(streams) :
          \A op \in {"read", "write", "flush", "shutdown"} :
             StepOn(op, i) =>
                /\ config' = config
                /\ incoming' = incoming
                /\ Len(streams') = Len(streams)
                /\ \A j \in 1..Len(streams) :
                      /\ streams'[j].state.inner.config = config
                      /\ j # i => /\ streams'[j] = streams[j]
                                  /\ hsReported'[j] = hsReported[j]
                                  /\ hsPolls'[j] = hsPolls[j]]_vars

\* the handshake of one stream just failed while the other stream is still
\* waiting for its own handshake
C11_Witness ==
    /\ Len(streams) = 2
    /\ last.op \in {"read", "write"} /\ last.hsKind = "Err"
    /\ \E j \in 1..2 :
          /\ j # last.sid
          /\ IsHandshaking(streams[j])
          /\ streams[j].state.inner.mid = "Handshaking"
          /\ streams[j].state.inner.config = config

\* C20: after poll_flush or poll_shutdown answered Ok on a Handshaking
\* stream, a poll_read or poll_write on it still polls the same, unfinished
\* handshake future, and when that succeeds the stream becomes Streaming over
\* the same raw connection and the call returns what the channel answered.
C20_EarlyShutdownHarmless ==
    [][\A i \in 1..Len(streams) :
          \A op \in {"read", "write"} :
             (StepOn(op, i) /\ earlyOk[i] /\ hsReported[i] = "none") =>
                /\ IsHandshaking(streams[i])
                /\ last'.hsPolled
                /\ last'.hsKind \in {"Pending", "Ok", "Err"}
                /\ last'.hsKind = "Ok" =>
                      /\ IsStreaming(streams'[i])
                      /\ streams'[i].state.inner.io = streams[i].state.inner.io
                      /\ last'.chanOp = op
                      /\ last'.ret = last'.chanOut]_vars

\* bytes accepted by a poll_write that completed the handshake of a stream
\* on which a flush or shutdown had answered Ok before
C20_Witness ==
    /\ last.op = "write" /\ last.hsKind = "Ok"
    /\ earlyOk[last.sid]
    /\ last.ret.kind = "Ok" /\ last.ret.n > 0
    /\ IsStreaming(streams[last.sid])

\* ---- properties of build ----
\* the bytes behind a source, and whether it can be read at all
DataOf(src) == IF src.kind = "lazy" THEN FS[src.path] ELSE src.data

Unreadable(src) == src.kind = "lazy" /\ FS[src.path] = NoFile

Has(d, items) == \E i \in 1..Len(d) : d[i] \in items

\* the source holds a private key with no undecodable section before it
HasUsableKey(src) ==
    /\ ~Unreadable(src)
    /\ \E i \in 1..Len(DataOf(src)) :
          /\ DataOf(src)[i] \in PemKeys
          /\ \A j \in 1..(i - 1) : DataOf(src)[j] # "bad"

\* the certificate step of build passes on this source
CertStepPasses(src) == ~Unreadable(src) /\ ~Has(DataOf(src), {"bad"})

BuiltNow == bld.pc = "built"

TagsOf(log) == {log[i].tag : i \in 1..Len(log)}

\* C12: build() with a key source that holds nothing and a certificate
\* source that parses fails with MissingPrivateKey; build() with a
\* certificate source holding a section that cannot be decoded fails with
\* CertParseError, whatever the key source holds.
C12_EmptyKeyBadCert ==
    BuiltNow =>
       /\ (CertStepPasses(bld.b.cert) /\ ~Unreadable(bld.b.key) /\ DataOf(bld.b.key) = <<>>) =>
             (~bld.out.ok /\ bld.out.err = MissingPrivateKey)
       /\ (~Unreadable(bld.b.cert) /\ Has(DataOf(bld.b.cert), {"bad"})) =>
             (~bld.out.ok /\ bld.out.err = CertParseError)

\* an undecodable certificate source next to a good key gave CertParseError
C12_Witness ==
    /\ BuiltNow
    /\ Has(DataOf(bld.b.cert), {"bad"})
    /\ HasUsableKey(bld.b.key)
    /\ bld.out.err = CertParseError

\* C13 (as claimed): a certificate source that cannot be decoded gives
\* CertParseError and a certificate source that cannot be read gives Io.
C13_CertIoVsParse ==
    BuiltNow =>
       /\ (~Unreadable(bld.b.cert) /\ Has(DataOf(bld.b.cert), {"bad"})) =>
             bld.out.err = CertParseError
       /\ Unreadable(bld.b.cert) =>
             (~bld.out.ok /\ bld.out.err.t = "Io")

\* C14 (as claimed): build() fails with CertParseError when the certificate
\* source decodes to no certificate at all.
C14_NoCertIsParseError ==
    (BuiltNow /\ CertStepPasses(bld.b.cert) /\ ~Has(DataOf(bld.b.cert), PemCerts \cup {"junk"})) =>
        (~bld.out.ok /\ bld.out.err = CertParseError)

\* C15: in Optional or Required mode, once the certificate and key steps have
\* passed, a readable trust-anchor source that adds no certificate fails the
\* build with CertParseError; one that adds a certificate does not fail the
\* trust-anchor step, whatever else it holds that cannot be added, and the
\* verifier gets exactly the added ones; in Off mode no trust-anchor source is
\* read and the configuration has no verifier roots.
C15_TrustAnchors ==
    (BuiltNow /\ bld.out.stage \notin {"cert", "key"}) =>
       LET ca == bld.b.client_auth IN
       /\ (ca.mode # "Off" /\ CertStepPasses(ca.src) /\ ~Has(DataOf(ca.src), PemCerts)) =>
             (~bld.out.ok /\ bld.out.err = CertParseError /\ bld.out.stage = "anchor")
       /\ (ca.mode # "Off" /\ CertStepPasses(ca.src) /\ Has(DataOf(ca.src), PemCerts)) =>
             /\ bld.out.stage \in {"assemble", "done"}
             /\ bld.out.ok => bld.out.config.verifier.roots = AddParsable(DataOf(ca.src))
       /\ ca.mode = "Off" =>
             /\ "anchor" \notin TagsOf(bld.out.log)
             /\ bld.out.ok => bld.out.config.verifier = NoVerifier

\* a trust-anchor source with one certificate that cannot be added and one
\* that can: the build succeeded
C15_Witness ==
    /\ BuiltNow /\ bld.out.ok
    /\ bld.b.client_auth.mode = "Required"
    /\ DataOf(bld.b.client_auth.src) = <<"junk", "certRSA">>
    /\ bld.out.config.verifier.roots = <<"certRSA">>

\* the sources hold a certificate and the private key of the same pair
ValidPair(b) ==
    /\ CertStepPasses(b.cert)
    /\ Len(DataOf(b.cert)) > 0
    /\ \E i \in 1..Len(DataOf(b.cert)) :
          /\ DataOf(b.cert)[i] \in PemCerts
          /\ \A j \in 1..(i - 1) : DataOf(b.cert)[j] \in PemKeys
          /\ HasUsableKey(b.key)
          /\ \E k \in 1..Len(DataOf(b.key)) :
                /\ DataOf(b.key)[k] \in PemKeys
                /\ \A j \in 1..(k - 1) : DataOf(b.key)[j] \notin PemKeys
                /\ PairOf(DataOf(b.key)[k]) = PairOf(DataOf(b.cert)[i])

\* the trust-anchor step cannot fail
AnchorsFine(b) ==
    \/ b.client_auth.mode = "Off"
    \/ CertStepPasses(b.client_auth.src) /\ Has(DataOf(b.client_auth.src), PemCerts)

\* C16: with the certificate and the private key of one RSA or EC pair, given
\* by path, by buffer or as one combined buffer, build() succeeds (the trust
\* anchors, if any, being usable); every configuration a build returns
\* advertises exactly h2 then http/1.1, whatever the client-auth mode and
\* the OCSP bytes.
C16_ValidPairBuilds ==
    BuiltNow =>
       /\ (ValidPair(bld.b) /\ AnchorsFine(bld.b)) => bld.out.ok
       /\ bld.out.ok =>
             /\ bld.out.config.alpn_protocols = <<"h2", "http/1.1">>
             /\ bld.out.config.ocsp = bld.b.ocsp_resp

\* one combined EC buffer given as certificate and as key, with OCSP bytes
\* and optional client auth from a file
C16_Witness ==
    /\ BuiltNow /\ bld.out.ok
    /\ bld.b.cert = Cursor(<<"certEC", "keyEC">>)
    /\ bld.b.key = Cursor(<<"certEC", "keyEC">>)
    /\ bld.b.ocsp_resp # <<>>
    /\ bld.b.client_auth.mode = "Optional"
    /\ bld.b.client_auth.src.kind = "lazy"
    /\ bld.out.config.alpn_protocols = <<"h2", "http/1.1">>

\* the verifier's answer to a peer that presents no client certificate
AcceptsAnonymous(cfg) == cfg.verifier.anonymous

\* a client certificate is asked for
RequestsClientCert(cfg) == cfg.verifier.roots # <<>>

\* C17: the configuration a build returns follows the last client_auth_*
\* call: after an optional one a peer without certificate is accepted, after
\* a required one it is rejected, and without any no client certificate is
\* asked for.
C17_VerifierFollowsMode ==
    (BuiltNow /\ bld.out.ok) =>
       /\ bld.authCall = "optional" =>
             (RequestsClientCert(bld.out.config) /\ AcceptsAnonymous(bld.out.config))
       /\ bld.authCall = "required" =>
             (RequestsClientCert(bld.out.config) /\ ~AcceptsAnonymous(bld.out.config))
       /\ bld.authCall = "none" =>
             (~RequestsClientCert(bld.out.config) /\ AcceptsAnonymous(bld.out.config))

\* a build in Required mode whose verifier rejects a peer without certificate
C17_Witness ==
    /\ BuiltNow /\ bld.out.ok
    /\ bld.authCall = "required"
    /\ bld.b.client_auth.src.kind = "cursor"
    /\ ~AcceptsAnonymous(bld.out.config)

\* the key step of build fails on this source
KeyStepFails(src) == ~HasUsableKey(src)

\* the tags of log are in the order cert, key, anchor
InStepOrder(log) ==
    \A i, j \in 1..Len(log) :
       i < j => ~(\/ log[i].tag = "key" /\ log[j].tag = "cert"
                  \/ log[i].tag = "anchor" /\ log[j].tag \in {"cert", "key"})

\* C18: build() reads the certificate, the key and the trust anchors in that
\* order and stops at the first step that fails: a failing certificate step
\* gives its error and neither key nor trust anchors are read, a failing key
\* step gives its error and the trust anchors are not read, and only then can
\* the trust-anchor step and the assembly fail.
C18_FailFast ==
    BuiltNow =>
       /\ InStepOrder(bld.out.log)
       /\ ~CertStepPasses(bld.b.cert) =>
             /\ bld.out.stage = "cert" /\ bld.out.err = CertParseError
             /\ TagsOf(bld.out.log) = {"cert"}
       /\ (CertStepPasses(bld.b.cert) /\ KeyStepFails(bld.b.key)) =>
             /\ bld.out.stage = "key" /\ bld.out.err.t \in {"Io", "MissingPrivateKey"}
             /\ TagsOf(bld.out.log) = {"cert", "key"}
       /\ (CertStepPasses(bld.b.cert) /\ ~KeyStepFails(bld.b.key)) =>
             /\ bld.out.stage \in {"anchor", "assemble", "done"}
             /\ bld.out.stage = "anchor" => ~AnchorsFine(bld.b)
             /\ bld.out.ok <=> bld.out.stage = "done"

\* certificate and key both fail and trust anchors are set: the certificate
\* error is returned and only the certificate source was read
C18_Witness ==
    /\ BuiltNow
    /\ ~CertStepPasses(bld.b.cert) /\ KeyStepFails(bld.b.key)
    /\ bld.b.client_auth.mode # "Off"
    /\ bld.out.err = CertParseError
    /\ TagsOf(bld.out.log) = {"cert"}

\* the path-backed sources of a builder
LazySources(b) == {src \in {b.cert, b.key, b.client_auth.src} : src.kind = "lazy"}

\* C19: no file is opened before build(): every path-backed source of the
\* builder is unopened. In build(), a read opens at most one file; a read of
\* an opened source opens nothing and keeps it opened; the read that opens
\* the file leaves the source opened; a read whose open fails returns an
\* error with the kind of the open error and the path, and leaves the source
\* unopened.
C19_LazyFile ==
    /\ (bld.pc = "building" =>
          /\ bld.opens = <<>>
          /\ \A src \in LazySources(bld.b) : src.file = "None")
    /\ \A i \in 1..Len(bld.out.log) :
          LET e == bld.out.log[i] IN
          /\ Len(e.opens) <= 1
          /\ e.path = "none" => e.opens = <<>>
          /\ e.path # "none" =>
                /\ e.fileBefore = "Open" => (e.opens = <<>> /\ e.fileAfter = "Open")
                /\ e.fileBefore = "None" => e.opens = <<e.path>>
                /\ (e.fileBefore = "None" /\ FS[e.path] # NoFile) => (e.ok /\ e.fileAfter = "Open")
                /\ (e.fileBefore = "None" /\ FS[e.path] = NoFile) =>
                      /\ ~e.ok /\ e.kind = "NotFound" /\ e.errPath = e.path
                      /\ e.fileAfter = "None"

\* a build that read a certificate file twice with one open, and whose key
\* file could not be opened
C19_Witness ==
    /\ BuiltNow
    /\ bld.b.cert = LazyFile("cert.pem")
    /\ bld.b.key = LazyFile("missing.pem")
    /\ bld.opens = <<"cert.pem", "missing.pem">>
    /\ Len(bld.out.log) = 3
    /\ bld.out.log[2].fileBefore = "Open" /\ bld.out.log[2].opens = <<>>
    /\ bld.out.err = TlsErr("Io", "NotFound", "missing.pem")

====
